---- MODULE Spec2Model ----
(***************************************************************************)
(* Model of folder_sync.py: one-way periodic synchronisation of a replica  *)
(* directory tree with a source directory tree.                            *)
(*                                                                         *)
(* A tree is a function from the relative paths that exist (sequences of   *)
(* names) to entries; an entry is a directory or a file with its bytes.    *)
(* Path.rglob("*") is a lazy generator: it lists the children of one       *)
(* directory (a snapshot), yields them one by one to the loop body, and    *)
(* only later scans the directory again to find the sub-directories to     *)
(* descend into.  The order of a listing is the operating system's and is  *)
(* modelled as a free choice.  I/O errors (EIO, EACCES ...) are decided by *)
(* the environment and are a free choice at each operation that can fail;  *)
(* a failing copy or delete is taken to fail before it changes anything.   *)
(* The two roots are disjoint directories.  Within the bounded contents,   *)
(* files of equal size have distinct digests; files of different sizes may *)
(* share one.                                                              *)
(***************************************************************************)
EXTENDS Integers, Sequences, FiniteSets, TLC

VARIABLES
    sourceRoot,   \* "dir", "missing", "file"
    source,       \* the source tree (entries beneath the source root)
    replica,      \* the replica tree (entries beneath the replica root)
    replicaRoot,  \* "dir", "missing" (parent exists), "noparent"
    pc,           \* position of the program: "boot", "ready", "propagate",
                  \* "prune", "sleep", "stopped" (main returned), "crashed"
    made,         \* replica paths the propagation loop of the current
                  \* pass created or copied
    batch,        \* rglob: children listed and not yet yielded
    pendingList,  \* rglob: directories whose children are still to be listed
    pendingScan,  \* rglob: directories still to be scanned for sub-directories
    log,          \* the log records emitted by the last step
    passNo,       \* number of passes started
    muts,         \* filesystem mutations performed by the current pass
    source0,      \* the source tree when the run started
    replica0,     \* the replica tree when the current pass started
    faulted,      \* an I/O error occurred in the current pass
    faultedBefore,\* an I/O error occurred in an earlier pass
    last,         \* what the last step did
    stopCause     \* "none", "interrupt", "error"

vars == <<sourceRoot, made, source, replica, replicaRoot, pc, batch,
          pendingList, pendingScan,
          log, passNo, muts, source0, replica0, faulted, faultedBefore, last,
          stopCause>>

----------------------------------------------------------------------------
(* Bounds                                                                  *)

MaxPasses == 2
DigestSpace == 7

(* Program constant: the chunk size of calculate_md5                        *)
ChunkSize == 4096

Names == {"a", "b"}
InitPaths == {<<"a">>, <<"b">>, <<"a", "a">>}
Contents == {<<1>>, <<2>>, <<1, 1>>}
DirSizes == {0, 2}

----------------------------------------------------------------------------
(* Trees                                                                   *)

Root == <<>>
Dir == [kind |-> "dir", data |-> <<>>]
File(c) == [kind |-> "file", data |-> c]
Entries == {Dir} \cup {File(c) : c \in Contents}

Parent(p) == SubSeq(p, 1, Len(p) - 1)
Basename(p) == p[Len(p)]
IsPrefix(p, q) == Len(p) <= Len(q) /\ SubSeq(q, 1, Len(p)) = p

Exists(fs, p) == p = Root \/ p \in DOMAIN fs
IsDir(fs, p) == p = Root \/ (p \in DOMAIN fs /\ fs[p].kind = "dir")
IsFile(fs, p) == p \in DOMAIN fs /\ fs[p].kind = "file"

ValidTree(fs) ==
    \A p \in DOMAIN fs : Len(p) >= 1 /\ IsDir(fs, Parent(p))

Trees ==
    {t \in UNION {[S -> Entries] : S \in SUBSET InitPaths} : ValidTree(t)}

EmptyTree == [p \in {} |-> Dir]

Put(fs, p, e) == [q \in DOMAIN fs \cup {p} |-> IF q = p THEN e ELSE fs[q]]

Unlink(fs, p) == [q \in DOMAIN fs \ {p} |-> fs[q]]

RmTree(fs, p) == [q \in {r \in DOMAIN fs : ~IsPrefix(p, r)} |-> fs[q]]

(* The names a scandir of directory d returns; nothing when d is not a     *)
(* directory any more.                                                     *)
Children(fs, d) ==
    IF IsDir(fs, d)
    THEN {q \in DOMAIN fs : Len(q) = Len(d) + 1 /\ IsPrefix(d, q)}
    ELSE {}

SubDirs(fs, d) == {q \in Children(fs, d) : fs[q].kind = "dir"}

(* st_size: the length of a file; for a directory a value that depends on  *)
(* the filesystem (dsz).                                                   *)
StatSize(fs, p, dsz) == IF IsDir(fs, p) THEN dsz ELSE Len(fs[p].data)

----------------------------------------------------------------------------
(* calculate_md5: the digest is folded over the file chunk by chunk; an    *)
(* IOError (also opening a directory) gives None.  The digest space is     *)
(* finite, so distinct contents may share a digest.                        *)

None == -1

RECURSIVE Md5Update(_, _)
Md5Update(h, bytes) ==
    IF bytes = <<>> THEN h
    ELSE Md5Update((h + Head(bytes)) % DigestSpace, Tail(bytes))

RECURSIVE Md5Chunks(_, _)
Md5Chunks(h, data) ==
    IF data = <<>> THEN h
    ELSE LET n == IF Len(data) < ChunkSize THEN Len(data) ELSE ChunkSize
         IN  Md5Chunks(Md5Update(h, SubSeq(data, 1, n)),
                       SubSeq(data, n + 1, Len(data)))

calculate_md5(fs, p, ioerr) ==
    IF ioerr \/ ~IsFile(fs, p) THEN None ELSE Md5Chunks(0, fs[p].data)

----------------------------------------------------------------------------
(* Log records                                                             *)

Info(m) == [level |-> "INFO", msg |-> m]
Error(m) == [level |-> "ERROR", msg |-> m]
Md5Errors(h) == IF h = None THEN <<Error("Error calculating MD5")>> ELSE <<>>

----------------------------------------------------------------------------
(* Filesystem calls of the loop bodies                                     *)

(* Path.mkdir(parents=True): missing ancestors are created; a file on the  *)
(* way raises.                                                             *)
RECURSIVE MkdirParents(_, _)
MkdirParents(fs, p) ==
    IF IsDir(fs, p) THEN [ok |-> TRUE, fs |-> fs]
    ELSE IF Exists(fs, p) THEN [ok |-> FALSE, fs |-> fs]
    ELSE LET r == MkdirParents(fs, Parent(p))
         IN  IF r.ok THEN [ok |-> TRUE, fs |-> Put(r.fs, p, Dir)] ELSE r

(* A copy in the wrong direction: the replica file written to the source.  *)
Copy2Swapped(srcFs, dstFs, from, to) ==
    LET dst == IF IsDir(srcFs, from) THEN from \o <<Basename(to)>> ELSE from
        ok  == IsFile(dstFs, to) /\ ~IsDir(srcFs, dst) /\ IsDir(srcFs, Parent(dst))
    IN  [ok  |-> ok,
         src |-> IF ok THEN Put(srcFs, dst, dstFs[to]) ELSE srcFs,
         dst |-> dstFs,
         at  |-> to]

(* shutil.copy2(from, to): a destination that is a directory receives the  *)
(* file under the source's base name; opening the destination fails when   *)
(* it is a directory or when its parent is not a directory.  The tree the  *)
(* file is read from is left as it is.                                     *)
Copy2(srcFs, dstFs, from, to) ==
    LET dst == IF IsDir(dstFs, to) THEN to \o <<Basename(from)>> ELSE to
        ok  == ~IsDir(dstFs, dst) /\ IsDir(dstFs, Parent(dst))
    IN  [ok  |-> ok,
         src |-> srcFs,
         dst |-> IF ok THEN Put(dstFs, dst, srcFs[from]) ELSE dstFs,
         at  |-> dst]

(* A comparison that trusts equal sizes and never looks at the digests.    *)
FileActionSizeOnly(ssz, rsz, smd5, rmd5) ==
    IF ssz = rsz THEN "none" ELSE "Updated file due to size change"

(* A comparison that makes the digests the only criterion.                 *)
FileActionDigestOnly(ssz, rsz, smd5, rmd5) ==
    IF smd5 # rmd5 THEN "Updated file" ELSE "none"

(* Lines 59-67: what is done with a source file whose replica path exists. *)
FileAction(ssz, rsz, smd5, rmd5) ==
    IF ssz = rsz
    THEN IF smd5 # rmd5 THEN "Updated file" ELSE "none"
    ELSE "Updated file due to size change"

NotComputed == -2

Outcome(src, rep, raised, op, events, smd5, rmd5, fault) ==
    [src |-> src, rep |-> rep, raised |-> raised, op |-> op,
     events |-> events, smd5 |-> smd5, rmd5 |-> rmd5, fault |-> fault]

(* A body that logs the copy before it calls shutil.copy2.                 *)
CopyFileLogFirst(item, cErr, msg, pre, smd5, rmd5, fault) ==
    LET c == Copy2(source, replica, item, item)
    IN  IF cErr \/ ~c.ok
        THEN Outcome(source, replica, TRUE, "copy", pre \o <<Info(msg)>>,
                     smd5, rmd5, fault \/ cErr)
        ELSE Outcome(c.src, c.dst, FALSE, "copy", pre \o <<Info(msg)>>,
                     smd5, rmd5, fault)

(* shutil.copy2(item, replica_item) followed by logging.info(msg); an      *)
(* OSError of the copy leaves the body before the log call.                *)
CopyFile(item, cErr, msg, pre, smd5, rmd5, fault) ==
    LET c == Copy2(source, replica, item, item)
    IN  IF cErr \/ ~c.ok
        THEN Outcome(source, replica, TRUE, "copy", pre, smd5, rmd5,
                     fault \/ cErr)
        ELSE Outcome(c.src, c.dst, FALSE, "copy", pre \o <<Info(msg)>>,
                     smd5, rmd5, fault)

(* Body of the first loop of sync_directories for one source item.         *)
(* dsz: st_size of a directory; sErr, rErr: IOError while hashing the      *)
(* source, the replica file; cErr: OSError while copying.  An item that    *)
(* has vanished from the source is taken for a file (is_dir() is false)    *)
(* and its copy2 or stat() raises FileNotFoundError.                       *)
PropagateBody(item, dsz, sErr, rErr, cErr) ==
    IF ~Exists(source, item)
    THEN Outcome(source, replica, TRUE, "stat", <<>>,
                 NotComputed, NotComputed, FALSE)
    ELSE
    IF IsDir(source, item)
    THEN IF ~Exists(replica, item)
         THEN LET m == MkdirParents(replica, item)
              IN  IF m.ok
                  THEN Outcome(source, m.fs, FALSE, "mkdir",
                               <<Info("Created directory")>>,
                               NotComputed, NotComputed, FALSE)
                  ELSE Outcome(source, replica, TRUE, "mkdir", <<>>,
                               NotComputed, NotComputed, FALSE)
         ELSE Outcome(source, replica, FALSE, "none", <<>>,
                      NotComputed, NotComputed, FALSE)
    ELSE IF ~Exists(replica, item)
         THEN CopyFile(item, cErr, "Copied file", <<>>,
                       NotComputed, NotComputed, FALSE)
         ELSE LET ssz  == StatSize(source, item, dsz)
                  rsz  == StatSize(replica, item, dsz)
                  smd5 == IF ssz = rsz THEN calculate_md5(source, item, sErr)
                          ELSE NotComputed
                  rmd5 == IF ssz = rsz THEN calculate_md5(replica, item, rErr)
                          ELSE NotComputed
                  errs == IF ssz = rsz THEN Md5Errors(smd5) \o Md5Errors(rmd5)
                          ELSE <<>>
                  flt  == ssz = rsz /\ (sErr \/ rErr)
                  act  == FileAction(ssz, rsz, smd5, rmd5)
              IN  IF act = "none"
                  THEN Outcome(source, replica, FALSE, "none", errs,
                               smd5, rmd5, flt)
                  ELSE CopyFile(item, cErr, act, errs, smd5, rmd5, flt)

(* A pruning body that unlinks files and leaves directories alone.         *)
PruneBodyFilesOnly(item, dErr) ==
    IF ~Exists(source, item) /\ IsFile(replica, item)
    THEN IF dErr
         THEN Outcome(source, replica, TRUE, "unlink", <<>>,
                      NotComputed, NotComputed, TRUE)
         ELSE Outcome(source, Unlink(replica, item), FALSE, "unlink",
                      <<Info("Deleted file")>>,
                      NotComputed, NotComputed, FALSE)
    ELSE Outcome(source, replica, FALSE, "none", <<>>,
                 NotComputed, NotComputed, FALSE)

(* A pruning body whose rmtree is given the directory that holds the item. *)
PruneBodyRmParent(item, dErr) ==
    IF ~Exists(source, item)
    THEN IF IsDir(replica, item)
         THEN IF dErr
              THEN Outcome(source, replica, TRUE, "rmtree", <<>>,
                           NotComputed, NotComputed, TRUE)
              ELSE Outcome(source, RmTree(replica, Parent(item)), FALSE,
                           "rmtree", <<Info("Deleted directory")>>,
                           NotComputed, NotComputed, FALSE)
         ELSE IF dErr \/ ~Exists(replica, item)
              THEN Outcome(source, replica, TRUE, "unlink", <<>>,
                           NotComputed, NotComputed, dErr)
              ELSE Outcome(source, Unlink(replica, item), FALSE, "unlink",
                           <<Info("Deleted file")>>,
                           NotComputed, NotComputed, FALSE)
    ELSE Outcome(source, replica, FALSE, "none", <<>>,
                 NotComputed, NotComputed, FALSE)

(* Body of the second loop of sync_directories for one replica item.       *)
(* dErr: OSError while deleting.                                           *)
PruneBody(item, dErr) ==
    IF ~Exists(source, item)
    THEN IF IsDir(replica, item)
         THEN IF dErr
              THEN Outcome(source, replica, TRUE, "rmtree", <<>>,
                           NotComputed, NotComputed, TRUE)
              ELSE Outcome(source, RmTree(replica, item), FALSE, "rmtree",
                           <<Info("Deleted directory")>>,
                           NotComputed, NotComputed, FALSE)
         ELSE IF dErr \/ ~Exists(replica, item)
              THEN Outcome(source, replica, TRUE, "unlink", <<>>,
                           NotComputed, NotComputed, dErr)
              ELSE Outcome(source, Unlink(replica, item), FALSE, "unlink",
                           <<Info("Deleted file")>>,
                           NotComputed, NotComputed, FALSE)
    ELSE Outcome(source, replica, FALSE, "none", <<>>,
                 NotComputed, NotComputed, FALSE)

----------------------------------------------------------------------------
(* The program                                                             *)

Step(kind, item, o) ==
    [kind |-> kind, item |-> item, op |-> o.op, raised |-> o.raised,
     smd5 |-> o.smd5, rmd5 |-> o.rmd5, fault |-> o.fault]

Idle(kind) ==
    [kind |-> kind, item |-> Root, op |-> "none", raised |-> FALSE,
     smd5 |-> NotComputed, rmd5 |-> NotComputed, fault |-> FALSE]

Init ==
    /\ \/ sourceRoot = "dir" /\ source \in Trees
       \/ sourceRoot \in {"missing", "file"} /\ source = EmptyTree
    /\ made = {}
    /\ \/ replicaRoot = "dir" /\ replica \in Trees
       \/ replicaRoot \in {"missing", "noparent"} /\ replica = EmptyTree
    /\ pc = "boot"
    /\ batch = {}
    /\ pendingList = {}
    /\ pendingScan = {}
    /\ log = <<>>
    /\ passNo = 0
    /\ muts = 0
    /\ source0 = source
    /\ replica0 = replica
    /\ faulted = FALSE
    /\ faultedBefore = FALSE
    /\ last = Idle("init")
    /\ stopCause = "none"

Warning(m) == [level |-> "WARNING", msg |-> m]

(* A start-up that does not check the source folder.                       *)
StartupUnchecked ==
    /\ pc = "boot"
    /\ pc' = "ready"
    /\ log' = (IF replicaRoot # "dir"
               THEN <<Warning("Replica folder does not exist")>> ELSE <<>>)
              \o <<Info("Starting folder synchronization"),
                   Info("Synchronization interval")>>
    /\ last' = Idle("startup")
    /\ UNCHANGED <<source, replica, replicaRoot, batch, pendingList,
                   pendingScan, passNo, muts, source0, replica0, faulted,
                   faultedBefore, stopCause, sourceRoot, made>>

(* Lines 112-126 and 85-90: the entry point raises ValueError when the     *)
(* source folder is not a directory; otherwise it warns about a missing    *)
(* replica folder and calls main, which logs its two start lines.          *)
Startup ==
    /\ pc = "boot"
    /\ IF sourceRoot # "dir"
       THEN /\ pc' = "crashed"
            /\ stopCause' = "config"
            /\ log' = <<>>
       ELSE /\ pc' = "ready"
            /\ stopCause' = stopCause
            /\ log' = (IF replicaRoot # "dir"
                       THEN <<Warning("Replica folder does not exist")>>
                       ELSE <<>>)
                      \o <<Info("Starting folder synchronization"),
                           Info("Synchronization interval")>>
    /\ last' = Idle("startup")
    /\ UNCHANGED <<source, replica, replicaRoot, batch, pendingList,
                   pendingScan, passNo, muts, source0, replica0, faulted,
                   faultedBefore, sourceRoot, made>>

(* The tree the running rglob walks.                                       *)
Walked == IF pc = "propagate" THEN source ELSE replica

(* A pass whose mkdir of the replica root lacks parents=True: a missing    *)
(* parent raises FileNotFoundError, which main logs before it returns.     *)
StartPassNoParents ==
    /\ pc = "ready"
    /\ passNo' = passNo + 1
    /\ replicaRoot' = IF replicaRoot = "missing" THEN "dir" ELSE replicaRoot
    /\ log' = IF replicaRoot = "missing"
              THEN <<Info("Created replica directory")>>
              ELSE IF replicaRoot = "noparent"
              THEN <<Error("An error occurred during synchronization")>>
              ELSE <<>>
    /\ muts' = IF replicaRoot = "missing" THEN 1 ELSE 0
    /\ pc' = IF replicaRoot = "noparent" THEN "stopped" ELSE "propagate"
    /\ stopCause' = IF replicaRoot = "noparent" THEN "error" ELSE stopCause
    /\ batch' = {}
    /\ pendingList' = IF replicaRoot = "noparent" THEN {} ELSE {Root}
    /\ pendingScan' = {}
    /\ replica0' = replica
    /\ faulted' = FALSE
    /\ faultedBefore' = (faultedBefore \/ faulted)
    /\ last' = Idle("start")
    /\ made' = {}
    /\ UNCHANGED <<source, replica, source0, sourceRoot>>

(* Lines 94, 34-43: main calls sync_directories, which creates the replica *)
(* root when it is missing and starts to walk the source.                  *)
StartPass ==
    /\ pc = "ready"
    /\ passNo' = passNo + 1
    /\ replicaRoot' = "dir"
    /\ log' = IF replicaRoot # "dir"
              THEN <<Info("Created replica directory")>> ELSE <<>>
    /\ muts' = IF replicaRoot # "dir" THEN 1 ELSE 0
    /\ pc' = "propagate"
    /\ batch' = {}
    /\ pendingList' = {Root}
    /\ pendingScan' = {}
    /\ replica0' = replica
    /\ faulted' = FALSE
    /\ faultedBefore' = (faultedBefore \/ faulted)
    /\ last' = Idle("start")
    /\ made' = {}
    /\ UNCHANGED <<source, replica, source0, stopCause, sourceRoot>>

(* The walked root has vanished: a scandir beneath it finds nothing.  The  *)
(* generator either lets the FileNotFoundError out (pathlib up to 3.11) or *)
(* swallows it and lists nothing (3.12 and later).                         *)
WalkedGone == pc = "propagate" /\ sourceRoot # "dir"

(* An exception of the generator leaves sync_directories; main logs it     *)
(* (lines 99-100) and returns.                                             *)
WalkRaises(kind) ==
    /\ pc' = "stopped"
    /\ stopCause' = "error"
    /\ log' = <<Error("An error occurred during synchronization")>>
    /\ batch' = {}
    /\ pendingList' = {}
    /\ pendingScan' = {}
    /\ last' = [Idle(kind) EXCEPT !.raised = TRUE]
    /\ UNCHANGED <<source, replica, replicaRoot, passNo, muts, source0,
                   replica0, faulted, faultedBefore, sourceRoot, made>>

(* rglob lists the children of a directory.                                *)
ListDir ==
    /\ pc \in {"propagate", "prune"}
    /\ batch = {}
    /\ \E d \in pendingList, raises \in BOOLEAN :
        IF raises /\ WalkedGone
        THEN WalkRaises("list")
        ELSE /\ batch' = Children(Walked, d)
             /\ pendingList' = pendingList \ {d}
             /\ pendingScan' = pendingScan \cup {d}
             /\ log' = <<>>
             /\ last' = Idle("list")
             /\ UNCHANGED <<source, replica, replicaRoot, pc, passNo, muts,
                            source0, replica0, faulted, faultedBefore,
                            stopCause, sourceRoot, made>>

(* A walk that descends into the sub-directories the tree had when the    *)
(* pass started instead of scanning the directory again.                   *)
RescanDirStale ==
    /\ pc \in {"propagate", "prune"}
    /\ batch = {}
    /\ \E d \in pendingScan, raises \in BOOLEAN :
        IF raises /\ WalkedGone
        THEN WalkRaises("scan")
        ELSE /\ pendingList' = pendingList \cup
                    SubDirs(IF pc = "propagate" THEN source ELSE replica0, d)
             /\ pendingScan' = pendingScan \ {d}
             /\ log' = <<>>
             /\ last' = Idle("scan")
             /\ UNCHANGED <<source, replica, replicaRoot, pc, batch, passNo,
                            muts, source0, replica0, faulted, faultedBefore,
                            stopCause, sourceRoot, made>>

(* rglob scans a directory whose children it has yielded for the           *)
(* sub-directories to descend into.                                        *)
RescanDir ==
    /\ pc \in {"propagate", "prune"}
    /\ batch = {}
    /\ \E d \in pendingScan, raises \in BOOLEAN :
        IF raises /\ WalkedGone
        THEN WalkRaises("scan")
        ELSE /\ pendingList' = pendingList \cup SubDirs(Walked, d)
             /\ pendingScan' = pendingScan \ {d}
             /\ log' = <<>>
             /\ last' = Idle("scan")
             /\ UNCHANGED <<source, replica, replicaRoot, pc, batch, passNo,
                            muts, source0, replica0, faulted, faultedBefore,
                            stopCause, sourceRoot, made>>

(* The replica path a mkdir or copy2 of the propagation body writes.       *)
Target(item, o) ==
    IF o.op = "copy" THEN Copy2(source, replica, item, item).at ELSE item

(* The effect of one loop body; an exception leaves sync_directories and   *)
(* is handled by main (lines 99-100), after which main returns.            *)
Apply(kind, item, o) ==
    /\ source' = o.src
    /\ replica' = o.rep
    /\ batch' = IF o.raised THEN {} ELSE batch \ {item}
    /\ pendingList' = IF o.raised THEN {} ELSE pendingList
    /\ pendingScan' = IF o.raised THEN {} ELSE pendingScan
    /\ pc' = IF o.raised THEN "stopped" ELSE pc
    /\ stopCause' = IF o.raised THEN "error" ELSE stopCause
    /\ log' = IF o.raised
              THEN o.events
                   \o <<Error("An error occurred during synchronization")>>
              ELSE o.events
    /\ muts' = IF o.raised \/ o.op = "none" THEN muts ELSE muts + 1
    /\ faulted' = (faulted \/ o.fault)
    /\ last' = Step(kind, item, o)
    /\ made' = IF kind = "propagate" /\ ~o.raised /\ o.op # "none"
               THEN made \cup {Target(item, o)} ELSE made
    /\ UNCHANGED <<replicaRoot, passNo, source0, replica0, faultedBefore,
                   sourceRoot>>

(* Lines 43-67: one iteration of the propagation loop.                     *)
PropagateItem ==
    /\ pc = "propagate"
    /\ \E item \in batch, dsz \in DirSizes, sErr, rErr, cErr \in BOOLEAN :
        Apply("propagate", item, PropagateBody(item, dsz, sErr, rErr, cErr))

(* Line 70: the source walk is exhausted, the replica walk starts.         *)
EndPropagate ==
    /\ pc = "propagate"
    /\ batch = {} /\ pendingList = {} /\ pendingScan = {}
    /\ pc' = "prune"
    /\ pendingList' = {Root}
    /\ log' = <<>>
    /\ last' = Idle("endpropagate")
    /\ UNCHANGED <<source, replica, replicaRoot, batch, pendingScan, passNo,
                   muts, source0, replica0, faulted, faultedBefore,
                   stopCause,
                   sourceRoot, made>>

(* Lines 70-80: one iteration of the pruning loop.                         *)
PruneItem ==
    /\ pc = "prune"
    /\ \E item \in batch, dErr \in BOOLEAN :
        Apply("prune", item, PruneBody(item, dErr))

(* Lines 95-96: sync_directories returned; main logs and sleeps.           *)
PassComplete ==
    /\ pc = "prune"
    /\ batch = {} /\ pendingList = {} /\ pendingScan = {}
    /\ pc' = "sleep"
    /\ log' = <<Info("Synchronization complete.")>>
    /\ last' = Idle("complete")
    /\ UNCHANGED <<source, replica, replicaRoot, batch, pendingList,
                   pendingScan, passNo, muts, source0, replica0, faulted,
                   faultedBefore, stopCause,
                   sourceRoot, made>>

(* Line 96: time.sleep returns and the loop goes round.                    *)
Wake ==
    /\ pc = "sleep"
    /\ passNo < MaxPasses
    /\ pc' = "ready"
    /\ log' = <<>>
    /\ last' = Idle("wake")
    /\ UNCHANGED <<source, replica, replicaRoot, batch, pendingList,
                   pendingScan, passNo, muts, source0, replica0, faulted,
                   faultedBefore, stopCause,
                   sourceRoot, made>>

(* A main whose generic handler (lines 99-100) also takes the interrupt.   *)
InterruptAsError ==
    /\ pc \in {"ready", "propagate", "prune", "sleep"}
    /\ pc' = "stopped"
    /\ stopCause' = "error"
    /\ log' = <<Error("An error occurred during synchronization")>>
    /\ batch' = {}
    /\ pendingList' = {}
    /\ pendingScan' = {}
    /\ last' = [Idle("interrupt") EXCEPT !.op = pc]
    /\ UNCHANGED <<source, replica, replicaRoot, passNo, muts, source0,
                   replica0, faulted, faultedBefore,
                   sourceRoot, made>>

(* Lines 97-98: KeyboardInterrupt during a pass or the sleep.              *)
Interrupt ==
    /\ pc \in {"ready", "propagate", "prune", "sleep"}
    /\ pc' = "stopped"
    /\ stopCause' = "interrupt"
    /\ log' = <<Info("Synchronization interrupted by user.")>>
    /\ batch' = {}
    /\ pendingList' = {}
    /\ pendingScan' = {}
    /\ last' = [Idle("interrupt") EXCEPT !.op = pc]
    /\ UNCHANGED <<source, replica, replicaRoot, passNo, muts, source0,
                   replica0, faulted, faultedBefore,
                   sourceRoot, made>>

Next ==
    \/ Startup
    \/ StartPass
    \/ ListDir
    \/ RescanDir
    \/ PropagateItem
    \/ EndPropagate
    \/ PruneItem
    \/ PassComplete
    \/ Wake
    \/ Interrupt

Spec == Init /\ [][Next]_vars

(* The environment removes the source root, with everything beneath it,    *)
(* while a pass is running.                                                *)
SourceVanishes ==
    /\ pc \in {"propagate", "prune"}
    /\ sourceRoot = "dir"
    /\ sourceRoot' = "missing"
    /\ source' = EmptyTree
    /\ log' = <<>>
    /\ last' = Idle("vanish")
    /\ UNCHANGED <<made, replica, replicaRoot, pc, batch, pendingList,
                   pendingScan, passNo, muts, source0, replica0, faulted,
                   faultedBefore, stopCause>>

NextEnv == Next \/ SourceVanishes

SpecEnv == Init /\ [][NextEnv]_vars

----------------------------------------------------------------------------
(* Properties                                                              *)

PassDone == pc = "sleep"

HasError(events) == \E i \in 1..Len(events) : events[i].level = "ERROR"

Digest(c) == Md5Chunks(0, c)

(* C1 (Mirroring): when a pass has completed without an I/O failure, every *)
(* source entry has an entry of the same type (and, for a file, the same   *)
(* bytes) at the same relative path of the replica, and every replica      *)
(* entry has a source entry at its relative path.                          *)
C1_Mirroring ==
    (PassDone /\ ~faulted) =>
        /\ \A p \in DOMAIN source :
              p \in DOMAIN replica /\ replica[p] = source[p]
        /\ \A p \in DOMAIN replica : p \in DOMAIN source

(* C2 (Idempotence): a second pass over an unchanged source, with no I/O   *)
(* failure in either pass, performs no filesystem mutation and leaves the  *)
(* replica as the first pass left it.                                      *)
C2_Idempotence ==
    (PassDone /\ passNo >= 2 /\ ~faulted /\ ~faultedBefore) =>
        (muts = 0 /\ replica = replica0)

(* C3 (Deletion completeness): when a pass has completed, every entry the  *)
(* replica had at the start of the pass whose relative path is absent from *)
(* the source is gone, and so is everything beneath it.                    *)
C3_DeletionComplete ==
    PassDone =>
        \A p \in DOMAIN replica0 :
            p \notin DOMAIN source =>
                \A q \in DOMAIN replica : ~IsPrefix(p, q)

C3_Witness ==
    /\ PassDone
    /\ \E p \in DOMAIN replica0 :
        /\ p \notin DOMAIN source
        /\ IsDir(replica0, p)
        /\ \E q \in DOMAIN replica0 : q # p /\ IsPrefix(p, q)

(* C4 (Change detection): for a source file whose replica path is a file,  *)
(* the propagation step copies when the sizes differ, copies when the      *)
(* sizes are equal and the digests differ, and does nothing when size and  *)
(* digest are equal; a copy that does not fail makes the replica file the  *)
(* source file, and without an I/O error the digests compared are the      *)
(* digests of the two contents.                                            *)
C4_ChangeDetection ==
    [][ (/\ last'.kind = "propagate"
         /\ IsFile(source, last'.item)
         /\ IsFile(replica, last'.item)) =>
        LET item == last'.item
            ssz  == Len(source[item].data)
            rsz  == Len(replica[item].data)
        IN  /\ ssz # rsz => last'.op = "copy"
            /\ (ssz = rsz /\ last'.smd5 # last'.rmd5) => last'.op = "copy"
            /\ (ssz = rsz /\ last'.smd5 = last'.rmd5) =>
                  (last'.op = "none" /\ replica' = replica /\ muts' = muts)
            /\ (last'.op = "copy" /\ ~last'.raised) =>
                  /\ replica' = Put(replica, item, source[item])
                  /\ muts' = muts + 1
            /\ (ssz = rsz /\ ~last'.fault) =>
                  /\ last'.smd5 = Digest(source[item].data)
                  /\ last'.rmd5 = Digest(replica[item].data)
      ]_vars

C4_Witness ==
    /\ last.kind = "propagate"
    /\ last.op = "copy"
    /\ ~last.raised
    /\ last.smd5 \in 0..(DigestSpace - 1)
    /\ last.rmd5 \in 0..(DigestSpace - 1)
    /\ IsFile(replica0, last.item)
    /\ replica[last.item] = source[last.item]
    /\ replica0[last.item] # source[last.item]

(* C5 (Digest failure leaves the file untouched): when the sizes of a      *)
(* source file and its replica file match and a digest computation fails   *)
(* on either side, an error is logged, the replica is not modified and the *)
(* pass goes on.                                                           *)
C5_DigestFailureUntouched ==
    [][ (/\ last'.kind = "propagate"
         /\ IsFile(source, last'.item)
         /\ IsFile(replica, last'.item)
         /\ Len(source[last'.item].data) = Len(replica[last'.item].data)
         /\ (last'.smd5 = None \/ last'.rmd5 = None)) =>
        /\ HasError(log')
        /\ replica' = replica
        /\ muts' = muts
        /\ pc' = pc
      ]_vars

(* C6 (Soft-failure isolation): a failing read, hash, copy or delete of    *)
(* one file does not abort the pass.                                       *)
C6_SoftFailureIsolation ==
    [][ (last'.kind \in {"propagate", "prune"} /\ last'.fault) =>
        (~last'.raised /\ pc' = pc) ]_vars

(* C7 (Pass failures do not stop the loop): main stops only on an operator *)
(* interrupt, never because a pass raised an error.                        *)
C7_LoopSurvivesPassError ==
    pc = "stopped" => stopCause = "interrupt"

(* C8 (Type mismatch, source wins): when a pass has completed without an   *)
(* I/O failure, every path that was a file on one side and a directory on  *)
(* the other at the start of the pass has the source's type and content in *)
(* the replica.                                                            *)
C8_TypeMismatchSourceWins ==
    (PassDone /\ ~faulted) =>
        \A p \in DOMAIN source \cap DOMAIN replica0 :
            source[p].kind # replica0[p].kind =>
                (p \in DOMAIN replica /\ replica[p] = source[p])

(* C9 (The source tree is read-only): no step changes the source tree.     *)
C9_SourceReadOnly == [][source' = source]_vars

C9_Witness ==
    /\ PassDone
    /\ muts >= 2
    /\ replica # replica0
    /\ source = source0

(* C10 (Graceful interrupt): an interrupt during a pass or the sleep stops *)
(* main with the final message logged at INFO and no error logged; once    *)
(* interrupted, no pass is started and the replica is not touched.         *)
C10_GracefulInterrupt ==
    [][ /\ last'.kind = "interrupt" =>
            /\ pc' = "stopped"
            /\ log' = <<Info("Synchronization interrupted by user.")>>
            /\ ~HasError(log')
            /\ stopCause' = "interrupt"
        /\ stopCause = "interrupt" =>
            (pc' = "stopped" /\ passNo' = passNo /\ replica' = replica)
      ]_vars

C10_Witness ==
    /\ pc = "stopped"
    /\ stopCause = "interrupt"
    /\ last.kind = "interrupt"
    /\ last.op \in {"propagate", "prune"}
    /\ muts >= 1

(* C11 (Replica root creation): a pass that starts while the replica root  *)
(* does not exist (with or without its parent) creates it as a directory   *)
(* and logs that, before any source entry is listed or propagated; while   *)
(* the propagation and pruning loops run the replica root is a directory.  *)
C11_ReplicaRootCreated ==
    [][ /\ (pc = "ready" /\ last'.kind = "start" /\ replicaRoot # "dir") =>
            /\ pc' = "propagate"
            /\ replicaRoot' = "dir"
            /\ log' = <<Info("Created replica directory")>>
            /\ replica' = replica
            /\ batch' = {}
            /\ made' = {}
        /\ pc' \in {"propagate", "prune"} => replicaRoot' = "dir"
      ]_vars

C11_Witness ==
    /\ PassDone
    /\ passNo = 1
    /\ replica0 = EmptyTree
    /\ DOMAIN source # {}
    /\ replica = source
    /\ muts = Cardinality(DOMAIN source) + 1

(* C12 (Fail fast on bad source): when the source root is missing or not a *)
(* directory at start-up, the entry point ends with a configuration error  *)
(* and no pass is ever started: no replica entry and no replica root is    *)
(* created, modified or deleted.                                           *)
C12_FailFastOnBadSource ==
    sourceRoot # "dir" =>
        /\ pc \in {"boot", "crashed"}
        /\ pc = "crashed" => stopCause = "config"
        /\ passNo = 0
        /\ muts = 0
        /\ made = {}
        /\ replica = replica0
        /\ (replicaRoot # "dir" => replica = EmptyTree)

C12_Witness ==
    /\ pc = "crashed"
    /\ stopCause = "config"
    /\ sourceRoot = "file"
    /\ replicaRoot = "missing"

(* C13 (Pruning tolerates ancestor deletion): every item the pruning loop  *)
(* visits still exists in the replica, every directory the walk has yet to *)
(* list or scan is still a directory, and a pruning step raises only on an *)
(* I/O failure of its delete.                                              *)
C13_PruneToleratesAncestorDeletion ==
    [][ /\ last'.kind = "prune" =>
            /\ last'.item \in DOMAIN replica
            /\ last'.raised => last'.fault
        /\ pc' = "prune" =>
            /\ batch' \subseteq DOMAIN replica'
            /\ \A d \in pendingList' \cup pendingScan' : IsDir(replica', d)
      ]_vars

C13_Witness ==
    /\ pc = "prune"
    /\ last.kind = "prune"
    /\ last.op = "rmtree"
    /\ ~last.raised
    /\ \E q \in DOMAIN replica0 : q # last.item /\ IsPrefix(last.item, q)
    /\ replica # EmptyTree

(* C14 (Propagation precedes pruning): once the pruning loop runs no       *)
(* propagation step follows in the same pass, and no pruning step removes  *)
(* a replica path that the propagation loop of the same pass created or    *)
(* copied.                                                                 *)
C14_PropagationPrecedesPruning ==
    [][ /\ (pc = "prune" /\ passNo' = passNo) => last'.kind # "propagate"
        /\ last'.kind = "prune" => \A q \in made : q \in DOMAIN replica'
      ]_vars

(* C15 (Root inaccessible is pass-fatal and non-destructive): once the     *)
(* source root has vanished during a pass, no step of that pass changes    *)
(* the replica; stated for a replica that mirrors the source as it was.    *)
C15_RootVanishedNonDestructive ==
    [][ (/\ sourceRoot # "dir"
         /\ pc \in {"propagate", "prune"}
         /\ replica = source0) =>
        (replica' = replica /\ muts' = muts) ]_vars

MutationMsgs ==
    {"Created replica directory", "Created directory", "Copied file",
     "Updated file", "Updated file due to size change", "Deleted file",
     "Deleted directory"}

Msgs(events) == {events[i].msg : i \in 1..Len(events)}

Count(events, msgs) ==
    Cardinality({i \in 1..Len(events) : events[i].msg \in msgs})

Computed(d) == d # NotComputed

(* C17 (Digest is used exactly when sizes match): for a source file whose  *)
(* replica counterpart exists, both digests are computed if and only if    *)
(* the sizes are equal; with different sizes the file is recopied and no   *)
(* digest is computed; with equal sizes the file is copied exactly when    *)
(* the two computed digests differ.                                        *)
C17_DigestExactlyWhenSizesMatch ==
    [][ (/\ last'.kind = "propagate"
         /\ IsFile(source, last'.item)
         /\ Exists(replica, last'.item)) =>
        LET item == last'.item
            both == Computed(last'.smd5) /\ Computed(last'.rmd5)
            none == ~Computed(last'.smd5) /\ ~Computed(last'.rmd5)
        IN  /\ both \/ none
            /\ IsFile(replica, item) =>
                   (both <=> Len(source[item].data) = Len(replica[item].data))
            /\ none => /\ last'.op = "copy"
                       /\ ~last'.raised =>
                              log' = <<Info("Updated file due to size change")>>
            /\ both => /\ last'.smd5 = calculate_md5(source, item,
                                                      last'.smd5 = None)
                       /\ IsFile(replica, item) =>
                              last'.rmd5 = calculate_md5(replica, item,
                                                         last'.rmd5 = None)
                       /\ last'.op = "copy" <=> last'.smd5 # last'.rmd5
                       /\ last'.op \in {"copy", "none"}
      ]_vars

C17_Witness ==
    /\ last.kind = "propagate"
    /\ last.op = "copy"
    /\ ~last.raised
    /\ last.smd5 = NotComputed
    /\ last.rmd5 = NotComputed
    /\ IsFile(replica0, last.item)
    /\ IsFile(source, last.item)
    /\ Len(replica0[last.item].data) # Len(source[last.item].data)
    /\ replica[last.item] = source[last.item]
    /\ log = <<Info("Updated file due to size change")>>

(* C18 (Directory before descendants): when the propagation loop processes *)
(* a source entry, the replica counterpart of the entry's parent directory *)
(* exists as a directory, whatever the replica tree was when the pass      *)
(* began.                                                                  *)
C18_DirectoryBeforeDescendants ==
    [][ (last'.kind = "propagate" /\ Exists(source, last'.item)) =>
        /\ replicaRoot = "dir"
        /\ IsDir(replica, Parent(last'.item)) ]_vars

(* C19 (The replica root is never deleted): every item the pruning loop    *)
(* handles lies strictly beneath the replica root, a pruning step removes  *)
(* nothing outside the subtree of its item, and the replica root exists    *)
(* during pruning and when the pass ends, also for an empty source tree.   *)
C19_ReplicaRootNeverDeleted ==
    [][ /\ last'.kind = "prune" =>
            /\ Len(last'.item) >= 1
            /\ \A q \in DOMAIN replica :
                   ~IsPrefix(last'.item, q) =>
                       (q \in DOMAIN replica' /\ replica'[q] = replica[q])
            /\ replicaRoot = "dir"
            /\ replicaRoot' = "dir"
        /\ (pc = "prune" /\ pc' = "sleep") => replicaRoot' = "dir"
        /\ replicaRoot = "dir" => replicaRoot' = "dir"
      ]_vars

C19_Witness ==
    /\ PassDone
    /\ sourceRoot = "dir"
    /\ source = EmptyTree
    /\ replica0 # EmptyTree
    /\ replica = EmptyTree
    /\ replicaRoot = "dir"
    /\ muts >= 1

====
